---- MODULE Spec2Model ----
(***************************************************************************)
(* Model of the Norwegian company domain finder:                           *)
(*   src/src/company_analyzer.py  CompanyAnalyzer  (classify, filter, sort) *)
(*   src/src/domain_finder.py     DomainFinder     (candidates, verify)     *)
(*   src/src/brreg_client.py      BRREGClient      (paged fetch)            *)
(*   src/main.py                  main             (the pipeline)           *)
(*                                                                         *)
(* Python values.  A string is a sequence of one-character strings.  A     *)
(* value that may be None is a sequence of length <= 1: None is << >> and  *)
(* the integer n is <<n>>.  A dict is a function whose DOMAIN is the set   *)
(* of keys present.  A call returns Return(v) or Raise(kind).              *)
(***************************************************************************)
EXTENDS Integers, Sequences, FiniteSets, TLC

\* ---------------------------------------------------------------- bounds
MaxEmployees == 252
MaxCompanies == 3
MaxRevenue == 2
MaxCount == 2
MaxMinEmployees == 3

\* ------------------------------------------------------- Python values
None == << >>
Some(n) == <<n>>
Return(v) == [raised |-> FALSE, value |-> v]
Raise(kind) == [raised |-> TRUE, value |-> kind]
EmptyDict == [k \in {} |-> None]

\* dict.get(key, default)
Get(d, key, default) == IF key \in DOMAIN d THEN d[key] ELSE default

\* dict.copy() followed by d[key] = v
SetItem(d, key, v) == [k \in DOMAIN d \cup {key} |-> IF k = key THEN v ELSE d[k]]

Min(a, b) == IF a <= b THEN a ELSE b

\* ------------------------------------------------ CompanyAnalyzer: inputs
\* the industry codes the classifier is exercised with
Kode62 == <<"6", "2", ".", "0", "1", "0">>
Kode04 == <<"0", "4">>
Kode6 == <<"6">>
Digits == {"0", "1", "2", "3", "4", "5", "6", "7", "8", "9"}
DigitVal == [c \in Digits |->
               CASE c = "0" -> 0 [] c = "1" -> 1 [] c = "2" -> 2 [] c = "3" -> 3
                 [] c = "4" -> 4 [] c = "5" -> 5 [] c = "6" -> 6 [] c = "7" -> 7
                 [] c = "8" -> 8 [] c = "9" -> 9]

\* industry_mapping: the two-digit keys of the table, by category
IndustryOfNumber(n) ==
    CASE n \in 1..3 -> "agriculture"
      [] n \in 5..9 -> "mining"
      [] n \in 10..33 -> "manufacturing"
      [] n \in 35..39 -> "utilities"
      [] n \in 41..43 -> "construction"
      [] n \in 45..47 -> "trade"
      [] n \in 49..53 -> "transport"
      [] n \in 55..56 -> "accommodation"
      [] n \in 58..63 -> "information"
      [] n \in 64..66 -> "finance"
      [] n = 68 -> "real_estate"
      [] n \in 69..75 -> "professional"
      [] n \in 77..82 -> "services"
      [] n = 84 -> "public"
      [] n = 85 -> "education"
      [] n \in 86..88 -> "health"
      [] n \in 90..93 -> "arts"
      [] n \in 94..99 -> "other"
      [] OTHER -> "other"

\* industry_mapping.get(code_num, 'other')
industry_mapping(code_num) ==
    IF Len(code_num) = 2 /\ code_num[1] \in Digits /\ code_num[2] \in Digits
    THEN IndustryOfNumber(10 * DigitVal[code_num[1]] + DigitVal[code_num[2]])
    ELSE "other"

\* ---------------------------------------------- CompanyAnalyzer: methods
\* a slip: the first tier reaches up to 20 employees
_estimate_revenue_wide_tier(company) ==
    LET employees == Get(company, "antallAnsatte", None) IN
    IF employees = None THEN None
    ELSE LET e == employees[1] IN
         IF e = 0 THEN Some(1000000)
         ELSE IF e <= 20 THEN Some(e * 2000000)
         ELSE IF e <= 50 THEN Some(e * 1500000)
         ELSE IF e <= 250 THEN Some(e * 1200000)
         ELSE Some(e * 1000000)

_estimate_revenue(company) ==
    LET employees == Get(company, "antallAnsatte", None) IN
    IF employees = None THEN None
    ELSE LET e == employees[1] IN
         IF e = 0 THEN Some(1000000)
         ELSE IF e <= 10 THEN Some(e * 2000000)
         ELSE IF e <= 50 THEN Some(e * 1500000)
         ELSE IF e <= 250 THEN Some(e * 1200000)
         ELSE Some(e * 1000000)

\* a boundary slip: the small bucket ends below 10
_classify_company_size_exclusive(company) ==
    LET employees == Get(company, "antallAnsatte", Some(0)) IN
    IF employees = None THEN Raise("TypeError")
    ELSE LET e == employees[1] IN
         IF e = 0 THEN Return("micro")
         ELSE IF e < 10 THEN Return("small")
         ELSE IF e <= 50 THEN Return("medium")
         ELSE IF e <= 250 THEN Return("large")
         ELSE Return("very_large")

\* None == 0 is False in Python and None <= 10 raises TypeError
_classify_company_size(company) ==
    LET employees == Get(company, "antallAnsatte", Some(0)) IN
    IF employees = None THEN Raise("TypeError")
    ELSE LET e == employees[1] IN
         IF e = 0 THEN Return("micro")
         ELSE IF e <= 10 THEN Return("small")
         ELSE IF e <= 50 THEN Return("medium")
         ELSE IF e <= 250 THEN Return("large")
         ELSE Return("very_large")

\* company.get('naeringskode1', {}).get('kode', ''): a null naeringskode1
\* has no .get and raises AttributeError
_get_industry_category(company) ==
    LET naeringskode1 == Get(company, "naeringskode1", Some(EmptyDict)) IN
    IF naeringskode1 = None THEN Raise("AttributeError")
    ELSE LET nace_code == Get(naeringskode1[1], "kode", <<>>) IN
         IF nace_code = <<>> THEN Return("unknown")
         ELSE LET code_num == IF Len(nace_code) >= 2 THEN SubSeq(nace_code, 1, 2)
                              ELSE <<>> IN
              Return(industry_mapping(code_num))

\* a slip: the result is built from an empty record, not from a copy
enrich_company_data_fresh(company) ==
    LET revenue_estimate == _estimate_revenue(company)
        size == _classify_company_size(company)
        industry == _get_industry_category(company)
    IN IF size.raised THEN size
       ELSE IF industry.raised THEN industry
       ELSE Return(SetItem(SetItem(SetItem(EmptyDict,
                       "estimated_revenue", revenue_estimate),
                       "size_category", size.value),
                       "industry_category", industry.value))

enrich_company_data(company) ==
    LET revenue_estimate == _estimate_revenue(company)
        size == _classify_company_size(company)
        industry == _get_industry_category(company)
    IN IF size.raised THEN size
       ELSE IF industry.raised THEN industry
       ELSE Return(SetItem(SetItem(SetItem(company,
                       "estimated_revenue", revenue_estimate),
                       "size_category", size.value),
                       "industry_category", industry.value))

\* a slip: an unknown count read as 0
KeepsLarge_none_as_zero(company, min_employees) ==
    LET employees == Get(company, "antallAnsatte", None) IN
    (IF employees = None THEN 0 ELSE employees[1]) >= min_employees

\* employees is not None and employees >= min_employees
KeepsLarge(company, min_employees) ==
    LET employees == Get(company, "antallAnsatte", None) IN
    employees # None /\ employees[1] >= min_employees

filter_large_companies(companies, min_employees) ==
    SelectSeq(companies, LAMBDA company : KeepsLarge(company, min_employees))

\* the sort key: revenue if revenue is not None else 0
get_revenue(company) ==
    LET revenue == Get(company, "estimated_revenue", None) IN
    IF revenue # None THEN revenue[1] ELSE 0

\* a slip: an element goes in front of the elements of equal key
RECURSIVE InsertDescending_unstable(_, _)
InsertDescending_unstable(sorted, company) ==
    IF sorted = <<>> THEN <<company>>
    ELSE IF get_revenue(Head(sorted)) > get_revenue(company)
         THEN <<Head(sorted)>> \o InsertDescending_unstable(Tail(sorted), company)
         ELSE <<company>> \o sorted

\* sorted(..., reverse=True) is stable: an element goes behind every element
\* already placed whose key is greater than or equal to its own
RECURSIVE InsertDescending(_, _)
InsertDescending(sorted, company) ==
    IF sorted = <<>> THEN <<company>>
    ELSE IF get_revenue(Head(sorted)) >= get_revenue(company)
         THEN <<Head(sorted)>> \o InsertDescending(Tail(sorted), company)
         ELSE <<company>> \o sorted

RECURSIVE SortedDescending(_)
SortedDescending(companies) ==
    IF companies = <<>> THEN <<>>
    ELSE InsertDescending(SortedDescending(SubSeq(companies, 1, Len(companies) - 1)),
                          companies[Len(companies)])

sort_by_revenue_estimate(companies) == SortedDescending(companies)

\* ----------------------------------------------------- DomainFinder: text
\* the characters of a name; "AE", "OE", "ae", "oe" stand for the single
\* non-ASCII letters Æ, Ø, æ, ø
LowerLetters == <<"a", "b", "c", "d", "e", "f", "g", "h", "i", "j", "k", "l",
                 "m", "n", "o", "p", "q", "r", "s", "t", "u", "v", "w", "x",
                 "y", "z">>
UpperLetters == <<"A", "B", "C", "D", "E", "F", "G", "H", "I", "J", "K", "L",
                 "M", "N", "O", "P", "Q", "R", "S", "T", "U", "V", "W", "X",
                 "Y", "Z">>
AsciiLower == {LowerLetters[i] : i \in 1..26}
AsciiUpper == {UpperLetters[i] : i \in 1..26}
NonAsciiLower == {"ae", "oe"}
NonAsciiUpper == {"AE", "OE"}
Whitespace == {" ", "\t"}
\* the characters the regular expression class \w matches
WordChars == AsciiLower \cup AsciiUpper \cup Digits \cup {"_"}
                 \cup NonAsciiLower \cup NonAsciiUpper

\* str.lower(), character by character
LowerChar(c) ==
    IF c \in AsciiUpper THEN LowerLetters[CHOOSE i \in 1..26 : UpperLetters[i] = c]
    ELSE IF c = "AE" THEN "ae"
    ELSE IF c = "OE" THEN "oe"
    ELSE c
Lower(str) == [i \in 1..Len(str) |-> LowerChar(str[i])]

EndsWith(str, suffix) ==
    /\ Len(str) >= Len(suffix)
    /\ SubSeq(str, Len(str) - Len(suffix) + 1, Len(str)) = suffix

suffixes_to_remove ==
    << <<"a", "s">>,
       <<"a", "s", "a">>,
       <<"b", "a">>,
       <<"d", "a">>,
       <<"i", "k", "s">>,
       <<"k", "s">>,
       <<"n", "u", "f">>,
       <<"s", "a">>,
       <<"s", "f">> >>

tlds == << <<".", "n", "o">>, <<".", "c", "o", "m">>, <<".", "o", "r", "g">>, <<".", "n", "e", "t">> >>

\* re.sub(r'\s+', '', name.lower()) then re.sub(r'[^a-z0-9]', '', ...)
CleanName(company_name) ==
    LET no_space == SelectSeq(Lower(company_name), LAMBDA c : c \notin Whitespace)
    IN SelectSeq(no_space, LAMBDA c : c \in AsciiLower \cup Digits)

\* a slip: the legal-form suffix is left on the name
StripSuffix_kept(clean_name) == clean_name

\* the first suffix of the list that the name ends with is cut off, once
StripSuffix(clean_name) ==
    LET matching == {i \in 1..Len(suffixes_to_remove) :
                        EndsWith(clean_name, suffixes_to_remove[i])}
    IN IF matching = {} THEN clean_name
       ELSE LET first == CHOOSE i \in matching : \A j \in matching : i <= j
            IN SubSeq(clean_name, 1, Len(clean_name) - Len(suffixes_to_remove[first]))

_guess_domains_from_name(company_name) ==
    IF company_name = <<>> THEN {}
    ELSE LET clean_name == StripSuffix(CleanName(company_name))
         IN IF Len(clean_name) >= 3
            THEN {clean_name \o tlds[i] : i \in 1..Len(tlds)}
            ELSE {}

\* the placeholder: no reverse lookup by organisation number
_search_whois_by_org_number(org_number) == {}

\* the last index of the run of ASCII letters that starts at index i
RECURSIVE RunEnd(_, _)
RunEnd(str, i) ==
    IF i < Len(str) /\ str[i + 1] \in AsciiLower THEN RunEnd(str, i + 1) ELSE i

\* a slip: the pattern without \b, every run of ASCII letters is a word
RECURSIVE FindWords_runs(_, _)
FindWords_runs(str, i) ==
    IF i > Len(str) THEN <<>>
    ELSE IF str[i] \in AsciiLower
         THEN LET j == RunEnd(str, i) IN
              <<SubSeq(str, i, j)>> \o FindWords_runs(str, j + 1)
         ELSE FindWords_runs(str, i + 1)

\* re.findall(r'\b[a-zA-Z]+\b', str), str already lower-cased: a run of
\* ASCII letters matches when no \w character touches it on either side
RECURSIVE FindWords(_, _)
FindWords(str, i) ==
    IF i > Len(str) THEN <<>>
    ELSE IF str[i] \in AsciiLower /\ (i = 1 \/ str[i - 1] \notin WordChars)
         THEN LET j == RunEnd(str, i) IN
              IF j = Len(str) \/ str[j + 1] \notin WordChars
              THEN <<SubSeq(str, i, j)>> \o FindWords(str, j + 1)
              ELSE FindWords(str, j + 1)
         ELSE FindWords(str, i + 1)

DotNo == <<".", "n", "o">>
DotCom == <<".", "c", "o", "m">>

_search_common_patterns(company_name) ==
    IF company_name = <<>> THEN {}
    ELSE LET words == FindWords(Lower(company_name), 1)
             single == IF Len(words) >= 1 /\ Len(words[1]) >= 3
                       THEN {words[1] \o DotNo, words[1] \o DotCom}
                       ELSE {}
             combined == IF Len(words) >= 2 THEN words[1] \o words[2] ELSE <<>>
             joined == IF Len(words) >= 2 /\ Len(combined) >= 4
                       THEN {combined \o DotNo, combined \o DotCom}
                       ELSE {}
             dashed == IF Len(words) >= 2
                       THEN {words[1] \o <<"-">> \o words[2] \o DotNo,
                             words[1] \o <<"-">> \o words[2] \o DotCom}
                       ELSE {}
         IN single \cup joined \cup dashed

\* the candidates find_domains_for_company collects before verifying
Candidates(company_data) ==
    LET company_name == Get(company_data, "navn", <<>>)
        org_number == Get(company_data, "organisasjonsnummer", <<>>)
    IN _guess_domains_from_name(company_name)
           \cup _search_whois_by_org_number(org_number)
           \cup _search_common_patterns(company_name)

\* ------------------------------------------------------------------ state
VARIABLES
    company,        \* the record handed to the classifier
    company2,       \* a second record, to compare two classifications
    companies,      \* the list handed to filter_large_companies / sort
    min_employees,  \* the threshold handed to filter_large_companies
    out             \* results of the calls made so far, by method name

VARIABLES
    company_data,     \* the record handed to find_domains_for_company
    dns,              \* the resolver's answer for each candidate host
    fpc,              \* find_domains_for_company: position
    domains,          \* find_domains_for_company: the candidates collected
    pending,          \* the candidates the for loop has not yet reached
    verified_domains, \* find_domains_for_company: verified so far
    fret,             \* find_domains_for_company: its outcome
    vpc,              \* _verify_domain: position
    vdomain,          \* _verify_domain: its argument
    vret,             \* _verify_domain: its outcome
    probes            \* the reachability probes issued by the current call

VARIABLES
    pc,                 \* main: position
    args,               \* main: the parsed command line
    registry,           \* the provider's pages of entity records
    page,               \* search_active_companies: the page to ask for next
    fetched,            \* search_active_companies: companies accumulated
    all_companies,      \* main: the fetched entities
    large_companies,    \* main: the entities that passed the filter
    enriched_companies, \* main: the classified entities
    sorted_companies,   \* main: the classified entities, sorted
    top_companies,      \* main: the first max_companies of them
    results,            \* main: the result records
    output_file,        \* the saved document, None until written
    exc,                \* the exception that ended main, "" if none
    log                 \* the error messages logged, in order

mainVars == <<pc, args, registry, page, fetched, all_companies, large_companies,
              enriched_companies, sorted_companies, top_companies, results,
              output_file, exc, log>>
unitVars == <<company, company2, companies, min_employees, out>>
findVars == <<fpc, domains, pending, verified_domains, fret>>
verifyVars == <<vpc, vdomain, vret, probes>>
discVars == <<company_data, dns, findVars, verifyVars>>
vars == <<unitVars, discVars, mainVars>>

NoCall == EmptyDict
Called(method) == method \in DOMAIN out

\* ----------------------------------------------------- inputs of the units
\* a field is either missing from the record, or present with a value
FieldInputs(key, values) ==
    {EmptyDict} \cup {[k \in {key} |-> v] : v \in values}

KnownEmployees == {Some(e) : e \in 0..MaxEmployees}
IndustryInputs ==
    {None, Some(EmptyDict)} \cup
    {Some([k \in {"kode"} |-> kode]) : kode \in {None, Kode6, Kode04, Kode62}}

\* the order of the size buckets
SizeRank(category) ==
    CASE category = "micro" -> 0 [] category = "small" -> 1
      [] category = "medium" -> 2 [] category = "large" -> 3
      [] category = "very_large" -> 4

\* ------------------------------------------------- the classifier, called
UnitIdle ==
    /\ company = EmptyDict /\ company2 = EmptyDict
    /\ companies = <<>> /\ min_employees = 0
    /\ out = NoCall

FindIdle ==
    /\ fpc = "start" /\ domains = {} /\ pending = {}
    /\ verified_domains = {} /\ fret = None
    /\ vpc = "idle" /\ vdomain = <<>> /\ vret = None /\ probes = <<>>

MainIdle ==
    /\ pc = "idle" /\ args = EmptyDict /\ registry = <<>>
    /\ page = 0 /\ fetched = <<>> /\ all_companies = <<>>
    /\ large_companies = <<>> /\ enriched_companies = <<>>
    /\ sorted_companies = <<>> /\ top_companies = <<>> /\ results = <<>>
    /\ output_file = None /\ exc = "" /\ log = <<>>

DiscIdle ==
    /\ company_data = EmptyDict /\ dns = EmptyDict
    /\ FindIdle
    /\ MainIdle

InitSize ==
    /\ company \in {[k \in {"antallAnsatte"} |-> e] : e \in KnownEmployees}
    /\ company2 \in {[k \in {"antallAnsatte"} |-> e] : e \in KnownEmployees}
    /\ companies = <<>> /\ min_employees = 0
    /\ out = NoCall
    /\ DiscIdle

InitEnrich ==
    /\ \E employees \in FieldInputs("antallAnsatte", {None} \cup KnownEmployees),
          industry \in FieldInputs("naeringskode1", IndustryInputs) :
          company = employees @@ industry
    /\ company2 = EmptyDict
    /\ companies = <<>> /\ min_employees = 0
    /\ out = NoCall
    /\ DiscIdle

EstimateRevenue ==
    /\ ~Called("revenue")
    /\ out' = SetItem(out, "revenue",
                      <<_estimate_revenue(company), _estimate_revenue(company2)>>)
    /\ UNCHANGED <<company, company2, companies, min_employees, discVars, mainVars>>

ClassifySize ==
    /\ ~Called("size")
    /\ out' = SetItem(out, "size",
                      <<_classify_company_size(company), _classify_company_size(company2)>>)
    /\ UNCHANGED <<company, company2, companies, min_employees, discVars, mainVars>>

Enrich ==
    /\ ~Called("enriched")
    /\ out' = SetItem(out, "enriched", enrich_company_data(company))
    /\ UNCHANGED <<company, company2, companies, min_employees, discVars, mainVars>>

NextSize == EstimateRevenue \/ ClassifySize
SpecSize == InitSize /\ [][NextSize]_vars

NextEnrich == Enrich
SpecEnrich == InitEnrich /\ [][NextEnrich]_vars

\* ------------------------------------------- filter and sort, called
\* lists of at most MaxCompanies records; the record at position i carries
\* organisasjonsnummer i, and one further field drawn from fields
Lists(fields) ==
    UNION {{[i \in 1..n |-> f[i] @@ [k \in {"organisasjonsnummer"} |-> i]] :
               f \in [1..n -> fields]} : n \in 0..MaxCompanies}

InitFilter ==
    /\ companies \in Lists(FieldInputs("antallAnsatte",
                              {None} \cup {Some(e) : e \in 0..MaxCount}))
    /\ min_employees \in -1..MaxMinEmployees
    /\ company = EmptyDict /\ company2 = EmptyDict
    /\ out = NoCall
    /\ DiscIdle

InitSort ==
    /\ companies \in Lists(FieldInputs("estimated_revenue",
                              {None} \cup {Some(r) : r \in 0..MaxRevenue}))
    /\ min_employees = 0
    /\ company = EmptyDict /\ company2 = EmptyDict
    /\ out = NoCall
    /\ DiscIdle

FilterLarge ==
    /\ ~Called("filtered")
    /\ out' = SetItem(out, "filtered", filter_large_companies(companies, min_employees))
    /\ UNCHANGED <<company, company2, companies, min_employees, discVars, mainVars>>

SortByRevenue ==
    /\ ~Called("sorted")
    /\ out' = SetItem(out, "sorted", sort_by_revenue_estimate(companies))
    /\ UNCHANGED <<company, company2, companies, min_employees, discVars, mainVars>>

NextFilter == FilterLarge
SpecFilter == InitFilter /\ [][NextFilter]_vars

NextSort == SortByRevenue
SpecSort == InitSort /\ [][NextSort]_vars

\* --------------------------------------------- the candidate strategies
NameWords ==
    { <<>>, <<"S", "t", "a", "t", "o", "i", "l">>, <<"A", "S", "A">>,
      <<"A", "S">>, <<"a", "b">>, <<"N", "o", "r", "d", "i", "c">>,
      <<"K", "r", "a", "f", "t">>, <<"b", "1">>, <<"B", "OE", "r", "s">> }
NameSeparators == { <<>>, <<" ">>, <<"-">>, <<"_">>, <<"\t", " ">> }
Names == {w1 \o sep \o w2 : w1 \in NameWords, sep \in NameSeparators, w2 \in NameWords}

InitCandidates ==
    /\ company_data \in {[k \in {"navn"} |-> n] : n \in Names}
    /\ dns = EmptyDict
    /\ FindIdle
    /\ UnitIdle
    /\ MainIdle

GuessFromName ==
    /\ ~Called("guess")
    /\ out' = SetItem(out, "guess", _guess_domains_from_name(company_data["navn"]))
    /\ UNCHANGED <<company, company2, companies, min_employees, discVars, mainVars>>

SearchPatterns ==
    /\ ~Called("patterns")
    /\ out' = SetItem(out, "patterns", _search_common_patterns(company_data["navn"]))
    /\ UNCHANGED <<company, company2, companies, min_employees, discVars, mainVars>>

CollectCandidates ==
    /\ ~Called("candidates")
    /\ out' = SetItem(out, "candidates", Candidates(company_data))
    /\ UNCHANGED <<company, company2, companies, min_employees, discVars, mainVars>>

NextCandidates == GuessFromName \/ SearchPatterns \/ CollectCandidates
SpecCandidates == InitCandidates /\ [][NextCandidates]_vars

\* ------------------------------------------------------------- discovery
LongNameLen == 64
LongName == [i \in 1..LongNameLen |-> "a"]
DiscoveryNames ==
    { <<>>, <<"A", "S">>, <<"a", " ", "b">>, <<"N", "o", "r", "d", "i", "c">>,
      <<"a", "b", " ", "c", "d">>, LongName }

\* socket.gethostbyname encodes the host first and raises UnicodeError
\* (not a socket.gaierror) for an empty label or one longer than 63
MaxLabel == 63
LabelInvalid(domain) ==
    \/ domain = <<>>
    \/ domain[1] = "."
    \/ \E i \in 1..(Len(domain) - 1) : domain[i] = "." /\ domain[i + 1] = "."
    \/ \E i \in 1..(Len(domain) - MaxLabel) :
          \A k \in i..(i + MaxLabel) : domain[k] # "."

ResolverOutcomes(domain) ==
    IF LabelInvalid(domain) THEN {"UnicodeError"}
    ELSE {"resolved", "gaierror", "timeout"}

\* what session.head can do: answer, or raise
ProbeOutcomes == {"ok", "ConnectionError", "Timeout", "InvalidURL"}

\* except (socket.gaierror, socket.timeout, requests.RequestException)
CaughtByVerify == {"gaierror", "timeout", "RequestException"}

InitDiscovery ==
    /\ company_data \in {EmptyDict} \cup {[k \in {"navn"} |-> n] : n \in DiscoveryNames}
    /\ dns \in {f \in [Candidates(company_data) -> {"resolved", "gaierror", "timeout", "UnicodeError"}] :
                   \A d \in DOMAIN f : f[d] \in ResolverOutcomes(d)}
    /\ FindIdle
    /\ UnitIdle
    /\ MainIdle

\* lines 37-47: collect the candidates of the three strategies
FindStart ==
    /\ fpc = "start"
    /\ domains' = Candidates(company_data)
    /\ pending' = Candidates(company_data)
    /\ verified_domains' = {}
    /\ fpc' = "loop"
    /\ UNCHANGED <<fret, company_data, dns, verifyVars, unitVars, mainVars>>

\* line 51-52: the for loop takes the next domain, in the set's order
VerifyCall ==
    /\ fpc = "loop" /\ vpc = "idle"
    /\ \E domain \in pending :
          /\ vdomain' = domain
          /\ pending' = pending \ {domain}
    /\ vpc' = "resolve"
    /\ probes' = <<>>
    /\ vret' = None
    /\ UNCHANGED <<fpc, domains, verified_domains, fret, company_data, dns, unitVars, mainVars>>

\* line 160: socket.gethostbyname(domain), and the except clause of line 176
Resolve ==
    /\ vpc = "resolve"
    /\ IF dns[vdomain] = "resolved"
       THEN vpc' = "http" /\ vret' = vret
       ELSE /\ vpc' = "returned"
            /\ vret' = IF dns[vdomain] \in CaughtByVerify
                       THEN Return(FALSE) ELSE Raise(dns[vdomain])
    /\ UNCHANGED <<vdomain, probes, findVars, company_data, dns, unitVars, mainVars>>

\* a probe issued, and whether the host answered it
Probe(scheme, outcome) == [scheme |-> scheme, answered |-> outcome = "ok"]

\* a slip: the return after an answered http probe is missing
ProbeHttp_no_return ==
    /\ vpc = "http"
    /\ \E outcome \in ProbeOutcomes :
          /\ probes' = Append(probes, Probe("http", outcome))
          /\ vpc' = "https" /\ vret' = vret
    /\ UNCHANGED <<vdomain, findVars, company_data, dns, unitVars, mainVars>>

\* lines 163-166: the HEAD request over http; any exception is swallowed
ProbeHttp ==
    /\ vpc = "http"
    /\ \E outcome \in ProbeOutcomes :
          /\ probes' = Append(probes, Probe("http", outcome))
          /\ IF outcome = "ok"
             THEN vpc' = "returned" /\ vret' = Return(TRUE)
             ELSE vpc' = "https" /\ vret' = vret
    /\ UNCHANGED <<vdomain, findVars, company_data, dns, unitVars, mainVars>>

\* a slip: a host that answers neither probe is reported unverified
ProbeHttps_required ==
    /\ vpc = "https"
    /\ \E outcome \in ProbeOutcomes :
          /\ probes' = Append(probes, Probe("https", outcome))
          /\ vret' = IF outcome = "ok" THEN Return(TRUE) ELSE Return(FALSE)
    /\ vpc' = "returned"
    /\ UNCHANGED <<vdomain, findVars, company_data, dns, unitVars, mainVars>>

\* lines 167-174: the HEAD request over https; on any exception the call
\* falls through to the return True of line 174
ProbeHttps ==
    /\ vpc = "https"
    /\ \E outcome \in ProbeOutcomes :
          /\ probes' = Append(probes, Probe("https", outcome))
          /\ vret' = IF outcome = "ok" THEN Return(TRUE) ELSE Return(TRUE)
    /\ vpc' = "returned"
    /\ UNCHANGED <<vdomain, findVars, company_data, dns, unitVars, mainVars>>

\* lines 52-53: back in the loop, a true answer adds the domain; an
\* exception of _verify_domain leaves find_domains_for_company
VerifyReturn ==
    /\ vpc = "returned"
    /\ vpc' = "idle"
    /\ IF vret.raised
       THEN fpc' = "raised" /\ fret' = vret /\ UNCHANGED verified_domains
       ELSE /\ verified_domains' = IF vret.value THEN verified_domains \cup {vdomain}
                                   ELSE verified_domains
            /\ UNCHANGED <<fpc, fret>>
    /\ UNCHANGED <<domains, pending, vdomain, vret, probes, company_data, dns, unitVars, mainVars>>

\* line 55
FindReturn ==
    /\ fpc = "loop" /\ vpc = "idle" /\ pending = {}
    /\ fpc' = "done"
    /\ fret' = Return(verified_domains)
    /\ UNCHANGED <<domains, pending, verified_domains, company_data, dns,
                   verifyVars, unitVars, mainVars>>

NextDiscovery ==
    \/ FindStart \/ VerifyCall \/ Resolve \/ ProbeHttp \/ ProbeHttps
    \/ VerifyReturn \/ FindReturn
SpecDiscovery == InitDiscovery /\ [][NextDiscovery]_vars

\* ------------------------------------------------------------------ main
MaxResults == 2
PageSize == 2
DefaultMinEmployees == 10

\* the provider's records: organisasjonsnummer i at position i, a short
\* name, an employee count (or none), and possibly a deletion date
ShortName == <<"a", " ", "b">>
RegistryRecords ==
    {employees @@ deleted : 
        employees \in FieldInputs("antallAnsatte", {Some(5), Some(10), Some(11)}),
        deleted \in FieldInputs("slettedato", {<<"2", "0", "2", "0">>})}
RegistryLists ==
    UNION {{[i \in 1..n |-> f[i] @@ [k \in {"organisasjonsnummer", "navn"} |->
                                        IF k = "navn" THEN ShortName ELSE i]] :
               f \in [1..n -> RegistryRecords]} : n \in 0..MaxCompanies}

\* the records cut into pages of PageSize
Pages(records) ==
    [p \in 1..((Len(records) + PageSize - 1) \div PageSize) |->
        SubSeq(records, (p - 1) * PageSize + 1, Min(p * PageSize, Len(records)))]

InitMain ==
    /\ pc = "fetch"
    /\ args \in [max_companies : 0..MaxResults, min_employees : {0, DefaultMinEmployees}]
    /\ registry \in {Pages(records) : records \in RegistryLists}
    /\ page = 0 /\ fetched = <<>> /\ all_companies = <<>>
    /\ large_companies = <<>> /\ enriched_companies = <<>>
    /\ sorted_companies = <<>> /\ top_companies = <<>> /\ results = <<>>
    /\ output_file = None /\ exc = "" /\ log = <<>>
    /\ company_data = EmptyDict /\ dns = EmptyDict
    /\ FindIdle
    /\ UnitIdle

\* search_active_companies(max_companies=args.max_companies * 3)
FetchLimit == args.max_companies * 3

\* lines 133-137: the active companies of a page are appended until the
\* limit is reached
RECURSIVE AppendActive(_, _, _)
AppendActive(acc, page_companies, limit) ==
    IF page_companies = <<>> THEN acc
    ELSE IF Get(Head(page_companies), "slettedato", None) = None
         THEN IF Len(acc) + 1 >= limit
              THEN Append(acc, Head(page_companies))
              ELSE AppendActive(Append(acc, Head(page_companies)),
                                Tail(page_companies), limit)
         ELSE AppendActive(acc, Tail(page_companies), limit)

\* line 147 and main line 68
FetchReturn(active) ==
    /\ all_companies' = SubSeq(active, 1, Min(Len(active), FetchLimit))
    /\ pc' = "fetched"

\* search_companies line 48: logger.error(f"Error searching companies: {e}")
SearchError(p) == [msg |-> "Error searching companies", page |-> p]
\* main line 71: logger.error("No companies found. Exiting.")
NoCompaniesError == [msg |-> "No companies found. Exiting."]

\* one pass of the while loop of search_active_companies (lines 122-144);
\* the request fails (search_companies logs and returns {}) or answers
FetchPage ==
    /\ pc = "fetch"
    /\ IF Len(fetched) >= FetchLimit
       THEN FetchReturn(fetched) /\ UNCHANGED <<fetched, page, log>>
       ELSE \E failed \in BOOLEAN :
              IF failed
              THEN /\ log' = Append(log, SearchError(page))
                   /\ FetchReturn(fetched) /\ UNCHANGED <<fetched, page>>
              ELSE IF page >= Len(registry)
              THEN FetchReturn(fetched) /\ UNCHANGED <<fetched, page, log>>
              ELSE LET companies_now == AppendActive(fetched, registry[page + 1], FetchLimit)
                   IN /\ fetched' = companies_now
                      /\ log' = log
                      /\ IF page >= Len(registry) - 1
                         THEN FetchReturn(companies_now) /\ page' = page
                         ELSE /\ page' = page + 1
                              /\ UNCHANGED <<pc, all_companies>>
    /\ UNCHANGED <<args, registry, large_companies, enriched_companies,
                   sorted_companies, top_companies, results, output_file, exc,
                   unitVars, discVars>>

\* lines 70-72: nothing fetched, the run ends with an error message
NoCompanies ==
    /\ pc = "fetched" /\ all_companies = <<>>
    /\ log' = Append(log, NoCompaniesError)
    /\ pc' = "no_input"
    /\ UNCHANGED <<args, registry, page, fetched, all_companies, large_companies,
                   enriched_companies, sorted_companies, top_companies, results,
                   output_file, exc, unitVars, discVars>>

\* a slip: the early return of lines 70-72 is missing
MainFilter_unguarded ==
    /\ pc = "fetched"
    /\ large_companies' = filter_large_companies(all_companies, args.min_employees)
    /\ pc' = "filtered"
    /\ UNCHANGED <<args, registry, page, fetched, all_companies,
                   enriched_companies, sorted_companies, top_companies, results,
                   output_file, exc, log, unitVars, discVars>>

\* lines 78-81
MainFilter ==
    /\ pc = "fetched" /\ all_companies # <<>>
    /\ large_companies' = filter_large_companies(all_companies, args.min_employees)
    /\ pc' = "filtered"
    /\ UNCHANGED <<args, registry, page, fetched, all_companies,
                   enriched_companies, sorted_companies, top_companies, results,
                   output_file, exc, log, unitVars, discVars>>

\* lines 87-94: the loop over large_companies; the first exception of
\* enrich_company_data ends main
MainEnrich ==
    /\ pc = "filtered"
    /\ LET enriched == [i \in 1..Len(large_companies) |->
                           enrich_company_data(large_companies[i])]
           failing == {i \in 1..Len(large_companies) : enriched[i].raised}
       IN IF failing = {}
          THEN /\ enriched_companies' = [i \in 1..Len(large_companies) |-> enriched[i].value]
               /\ pc' = "enriched" /\ exc' = exc
          ELSE /\ pc' = "crashed"
               /\ exc' = enriched[CHOOSE i \in failing : \A j \in failing : i <= j].value
               /\ UNCHANGED enriched_companies
    /\ UNCHANGED <<args, registry, page, fetched, all_companies, large_companies,
                   sorted_companies, top_companies, results, output_file,
                   log, unitVars, discVars>>

\* line 98
MainSort ==
    /\ pc = "enriched"
    /\ sorted_companies' = sort_by_revenue_estimate(enriched_companies)
    /\ pc' = "sorted"
    /\ UNCHANGED <<args, registry, page, fetched, all_companies, large_companies,
                   enriched_companies, top_companies, results, output_file, exc,
                   log, unitVars, discVars>>

\* a slip: the last max_companies entries instead of the first
Truncate_tail(sorted, max_companies) ==
    SubSeq(sorted, Len(sorted) - Min(Len(sorted), max_companies) + 1, Len(sorted))

\* line 101: sorted_companies[:args.max_companies]
Truncate(sorted, max_companies) == SubSeq(sorted, 1, Min(Len(sorted), max_companies))

MainTruncate ==
    /\ pc = "sorted"
    /\ top_companies' = Truncate(sorted_companies, args.max_companies)
    /\ pc' = "discover"
    /\ UNCHANGED <<args, registry, page, fetched, all_companies, large_companies,
                   enriched_companies, sorted_companies, results, output_file, exc,
                   log, unitVars, discVars>>

\* lines 115-125: the result record of a company and its domains; list()
\* of the set is kept as the set, its order carries no meaning
ResultRecord(c, found) ==
    [organization_number |-> Get(c, "organisasjonsnummer", <<>>),
     business_name |-> Get(c, "navn", <<>>),
     unique_domains |-> found,
     estimated_revenue |-> Get(c, "estimated_revenue", None),
     employees |-> Get(c, "antallAnsatte", None),
     industry |-> Get(c, "industry_category", "unknown")]

\* lines 108-127, one pass: find_domains_for_company answers with the
\* candidates that resolve, or raises when the resolver rejects a host
MainDiscover ==
    /\ pc = "discover" /\ Len(results) < Len(top_companies)
    /\ LET c == top_companies[Len(results) + 1]
           rejected == {d \in Candidates(c) : LabelInvalid(d)}
       IN IF rejected # {}
          THEN pc' = "crashed" /\ exc' = "UnicodeError" /\ UNCHANGED results
          ELSE /\ \E found \in SUBSET Candidates(c) :
                     results' = Append(results, ResultRecord(c, found))
               /\ UNCHANGED <<pc, exc>>
    /\ UNCHANGED <<args, registry, page, fetched, all_companies, large_companies,
                   enriched_companies, sorted_companies, top_companies,
                   output_file, log, unitVars, discVars>>

RECURSIVE TotalDomains(_)
TotalDomains(records) ==
    IF records = <<>> THEN 0
    ELSE Cardinality(Head(records).unique_domains) + TotalDomains(Tail(records))

\* lines 136-141: save_json_results / save_csv_results
MainSave ==
    /\ pc = "discover" /\ Len(results) = Len(top_companies)
    /\ output_file' = Some([total_companies |-> Len(results),
                            total_domains |-> TotalDomains(results),
                            companies |-> results])
    /\ pc' = "summary"
    /\ UNCHANGED <<args, registry, page, fetched, all_companies, large_companies,
                   enriched_companies, sorted_companies, top_companies, results,
                   exc, log, unitVars, discVars>>

\* lines 144-164: the summary divides total_domains by len(results)
MainSummary ==
    /\ pc = "summary"
    /\ IF Len(results) = 0
       THEN pc' = "crashed" /\ exc' = "ZeroDivisionError"
       ELSE pc' = "done" /\ exc' = exc
    /\ UNCHANGED <<args, registry, page, fetched, all_companies, large_companies,
                   enriched_companies, sorted_companies, top_companies, results,
                   output_file, log, unitVars, discVars>>

Next ==
    \/ FetchPage \/ NoCompanies \/ MainFilter \/ MainEnrich \/ MainSort
    \/ MainTruncate \/ MainDiscover \/ MainSave \/ MainSummary
Init == InitMain
Spec == Init /\ [][Next]_vars

\* ------------------------------------------------- claims: the classifier
Employees(c) == c["antallAnsatte"][1]

\* C8: the revenue estimate is monotonically increasing in the employee
\* count: for known counts e1 < e2 the estimate of e1 is at most the
\* estimate of e2, also when e1 and e2 fall in different tiers.
C8_RevenueMonotone ==
    (Called("revenue") /\ Employees(company) < Employees(company2))
        => out["revenue"][1][1] <= out["revenue"][2][1]

\* C9: _classify_company_size maps 0 to micro, 1..10 to small, 11..50 to
\* medium, 51..250 to large and more than 250 to very_large, and is
\* non-decreasing in the employee count under micro < small < medium <
\* large < very_large.
BucketOf(e) ==
    CASE e = 0 -> "micro"
      [] e \in 1..10 -> "small"
      [] e \in 11..50 -> "medium"
      [] e \in 51..250 -> "large"
      [] e > 250 -> "very_large"

C9_SizeBuckets ==
    Called("size") =>
        /\ ~out["size"][1].raised /\ ~out["size"][2].raised
        /\ out["size"][1].value = BucketOf(Employees(company))
        /\ out["size"][2].value = BucketOf(Employees(company2))
        /\ Employees(company) <= Employees(company2)
              => SizeRank(out["size"][1].value) <= SizeRank(out["size"][2].value)

C9_Witness ==
    /\ Called("size")
    /\ Employees(company) = 250 /\ Employees(company2) = 251
    /\ out["size"][1].value = "large" /\ out["size"][2].value = "very_large"

\* C6: enrich_company_data never fails: with the employee count missing or
\* null the result has an absent estimated_revenue and size_category micro,
\* with the industry code field missing or null it has industry_category
\* unknown, and no exception propagates.
EmployeesUnknown(c) == Get(c, "antallAnsatte", None) = None
IndustryCodeUnknown(c) ==
    \/ Get(c, "naeringskode1", None) = None
    \/ Get(c["naeringskode1"][1], "kode", None) = None

C6_EnrichNeverFails ==
    Called("enriched") =>
        /\ ~out["enriched"].raised
        /\ EmployeesUnknown(company) =>
              /\ out["enriched"].value["estimated_revenue"] = None
              /\ out["enriched"].value["size_category"] = "micro"
        /\ IndustryCodeUnknown(company) =>
              out["enriched"].value["industry_category"] = "unknown"

\* ------------------------------------------------ claims: filter and sort
OrgOf(c) == c["organisasjonsnummer"]
EmployeesKnown(c) == "antallAnsatte" \in DOMAIN c /\ c["antallAnsatte"] # None

\* C3: filter_large_companies keeps an entity if and only if its employee
\* count is known and at least min_employees, in input order; an entity
\* with an absent count is dropped for every min_employees, 0 and negative
\* values included.
C3_FilterKnownAtLeast ==
    Called("filtered") =>
        LET kept == out["filtered"]
            qualifies == {i \in 1..Len(companies) :
                             /\ EmployeesKnown(companies[i])
                             /\ Employees(companies[i]) >= min_employees}
        IN /\ Len(kept) = Cardinality(qualifies)
           /\ \A j \in 1..Len(kept) :
                 /\ OrgOf(kept[j]) \in qualifies
                 /\ kept[j] = companies[OrgOf(kept[j])]
           /\ \A j, k \in 1..Len(kept) : j < k => OrgOf(kept[j]) < OrgOf(kept[k])
           /\ \A i \in 1..Len(companies) :
                 ~EmployeesKnown(companies[i])
                     => \A j \in 1..Len(kept) : OrgOf(kept[j]) # i

C3_Witness ==
    /\ Called("filtered")
    /\ min_employees <= 0
    /\ Len(out["filtered"]) >= 1
    /\ \E i, j \in 1..Len(companies) :
          /\ "antallAnsatte" \notin DOMAIN companies[i]
          /\ "antallAnsatte" \in DOMAIN companies[j]
          /\ companies[j]["antallAnsatte"] = None

\* C4: sort_by_revenue_estimate returns a permutation of its input in
\* non-increasing order of estimated_revenue with an absent estimate
\* compared as 0, entities of equal comparison value keep their input
\* order, and an entity whose estimate was absent still has it absent.
RevenueAbsent(c) == Get(c, "estimated_revenue", None) = None
CompareValue(c) == IF RevenueAbsent(c) THEN 0 ELSE c["estimated_revenue"][1]

C4_SortStableDescending ==
    Called("sorted") =>
        LET result == out["sorted"] IN
        /\ Len(result) = Len(companies)
        /\ {OrgOf(result[j]) : j \in 1..Len(result)} = 1..Len(companies)
        /\ \A j \in 1..Len(result) : result[j] = companies[OrgOf(result[j])]
        /\ \A j, k \in 1..Len(result) :
              j < k => /\ CompareValue(result[j]) >= CompareValue(result[k])
                       /\ CompareValue(result[j]) = CompareValue(result[k])
                             => OrgOf(result[j]) < OrgOf(result[k])
        /\ \A j \in 1..Len(result) :
              RevenueAbsent(companies[OrgOf(result[j])]) => RevenueAbsent(result[j])

C4_Witness ==
    /\ Called("sorted")
    /\ Len(out["sorted"]) = 3
    /\ out["sorted"] # companies
    /\ \E j \in 1..2 :
          /\ RevenueAbsent(out["sorted"][j])
          /\ ~RevenueAbsent(out["sorted"][j + 1])
          /\ CompareValue(out["sorted"][j + 1]) = 0

\* ------------------------------------------------------ claims: discovery
\* C1: _verify_domain returns true whenever name resolution succeeds,
\* whatever the two probes do, and returns false whenever name resolution
\* fails.
C1_ResolutionDecides ==
    vpc = "returned" =>
        /\ ~vret.raised
        /\ vret.value = (dns[vdomain] = "resolved")

\* C7: _verify_domain never raises: every failure of the resolution step or
\* of a probe, of whatever kind, ends in a boolean return value, and a
\* resolution failure gives false.
C7_VerifyNeverRaises ==
    /\ vpc = "returned" => ~vret.raised /\ vret.value \in BOOLEAN
    /\ (vpc = "returned" /\ dns[vdomain] # "resolved")
          => ~vret.raised /\ vret.value = FALSE
    /\ fpc # "raised"

\* C2: find_domains_for_company returns exactly the candidates of the
\* name-to-slug, word-pattern and identifier strategies whose verification
\* was true: nothing outside the union, every candidate verified, the same
\* set whatever the order of verification, and the empty set, without an
\* error, for a missing or empty name.
NameOf(data) == Get(data, "navn", <<>>)
StrategyUnion(data) ==
    _guess_domains_from_name(NameOf(data))
        \cup _search_common_patterns(NameOf(data))
        \cup _search_whois_by_org_number(Get(data, "organisasjonsnummer", <<>>))

C2_VerifiedSubsetOfUnion ==
    /\ fpc = "done" =>
          /\ ~fret.raised
          /\ fret.value = {c \in StrategyUnion(company_data) : dns[c] = "resolved"}
          /\ domains = StrategyUnion(company_data)
          /\ pending = {}
    /\ NameOf(company_data) = <<>> =>
          /\ fpc # "raised"
          /\ fpc = "done" => fret.value = {}

Nordic == <<"N", "o", "r", "d", "i", "c">>
C2_Witness ==
    /\ fpc = "done"
    /\ NameOf(company_data) = Nordic
    /\ Cardinality(domains) = 4
    /\ Cardinality(fret.value) = 2
    /\ (Lower(Nordic) \o DotNo) \in fret.value

\* ---------------------------------------------------- claims: candidates
StatoilASA == <<"S", "t", "a", "t", "o", "i", "l", " ", "A", "S", "A">>
StatoilNo == <<"s", "t", "a", "t", "o", "i", "l">> \o DotNo
StatoilAsaNo == <<"s", "t", "a", "t", "o", "i", "l", "a", "s", "a">> \o DotNo

\* C10 (as claimed): the candidate set for "Statoil ASA", the union that
\* discovery verifies, includes statoil.no and does not include
\* statoilasa.no; the candidate set for the empty name is empty.
C10_StatoilCandidates ==
    Called("candidates") =>
        /\ NameOf(company_data) = StatoilASA =>
              /\ StatoilNo \in out["candidates"]
              /\ StatoilAsaNo \notin out["candidates"]
        /\ NameOf(company_data) = <<>> => out["candidates"] = {}

\* C10 (amended): for "Statoil ASA" the candidate set includes statoil.no;
\* the name-to-slug strategy does not produce statoilasa.no, but the
\* word-pattern strategy does (the first two words joined), so the union
\* includes it; the candidate set for the empty name is empty.
C10_StatoilCandidatesByStrategy ==
    /\ (Called("candidates") /\ NameOf(company_data) = StatoilASA) =>
          /\ StatoilNo \in out["candidates"]
          /\ StatoilAsaNo \in out["candidates"]
    /\ (Called("guess") /\ NameOf(company_data) = StatoilASA) =>
          /\ StatoilNo \in out["guess"]
          /\ StatoilAsaNo \notin out["guess"]
    /\ (Called("patterns") /\ NameOf(company_data) = StatoilASA) =>
          StatoilAsaNo \in out["patterns"]
    /\ (Called("candidates") /\ NameOf(company_data) = <<>>) =>
          out["candidates"] = {}

C10_Witness ==
    /\ NameOf(company_data) = StatoilASA
    /\ Called("candidates") /\ Called("guess") /\ Called("patterns")
    /\ Cardinality(out["candidates"]) = 8

\* C8 (amended): inside one tier (0; 1..10; 11..50; 51..250; above 250)
\* the revenue estimate is monotonically increasing in the employee count.
TierOf(e) ==
    IF e = 0 THEN 0 ELSE IF e <= 10 THEN 1 ELSE IF e <= 50 THEN 2
    ELSE IF e <= 250 THEN 3 ELSE 4

C8_RevenueMonotoneInTier ==
    (/\ Called("revenue")
     /\ Employees(company) < Employees(company2)
     /\ TierOf(Employees(company)) = TierOf(Employees(company2)))
        => out["revenue"][1][1] <= out["revenue"][2][1]

C8_Witness ==
    /\ Called("revenue")
    /\ Employees(company) = 11 /\ Employees(company2) = 50
    /\ out["revenue"][1] = Some(16500000) /\ out["revenue"][2] = Some(75000000)

\* ------------------------------------------------- claims: the pipeline
Orgs(list) == {OrgOf(list[i]) : i \in 1..Len(list)}

\* C5: after filter, classify, sort and truncate with max_results = k >= 0
\* over n surviving entities the ranked list has exactly min(n, k)
\* entries, in non-increasing order of estimated revenue, no entity left
\* out has a strictly higher estimate than one in the list, and with
\* n < k all n entities are returned.
C5_TopOfRanking ==
    pc \in {"discover", "summary", "done"} =>
        LET n == Len(large_companies)
            k == args.max_companies
        IN /\ Len(top_companies) = Min(n, k)
           /\ Cardinality(Orgs(top_companies)) = Len(top_companies)
           /\ Orgs(top_companies) \subseteq Orgs(large_companies)
           /\ \A i, j \in 1..Len(top_companies) :
                 i < j => CompareValue(top_companies[i]) >= CompareValue(top_companies[j])
           /\ \A i \in 1..Len(enriched_companies) :
                 OrgOf(enriched_companies[i]) \notin Orgs(top_companies) =>
                     \A j \in 1..Len(top_companies) :
                         CompareValue(enriched_companies[i]) <= CompareValue(top_companies[j])
           /\ n < k => Orgs(top_companies) = Orgs(large_companies)

C5_Witness ==
    /\ pc = "discover"
    /\ Len(large_companies) = 3 /\ args.max_companies = 2
    /\ Len(top_companies) = 2
    /\ CompareValue(top_companies[1]) > CompareValue(top_companies[2])
    /\ \E i \in 1..3 :
          /\ OrgOf(enriched_companies[i]) \notin Orgs(top_companies)
          /\ CompareValue(enriched_companies[i]) < CompareValue(top_companies[2])

\* ------------------------------------------------ claims: word patterns
\* the runs of ASCII letters of str that no character of touching lies
\* next to, as pairs <<first index, last index>>
LetterRuns(str, touching) ==
    {r \in (1..Len(str)) \X (1..Len(str)) :
        /\ r[1] <= r[2]
        /\ \A k \in r[1]..r[2] : str[k] \in AsciiLower
        /\ r[1] = 1 \/ str[r[1] - 1] \notin touching
        /\ r[2] = Len(str) \/ str[r[2] + 1] \notin touching}

\* the domains the claim lists for the first two of the runs
PatternsOfRuns(str, runs) ==
    LET first == CHOOSE r \in runs : \A q \in runs : r[1] <= q[1]
        rest == runs \ {first}
        second == CHOOSE r \in rest : \A q \in rest : r[1] <= q[1]
        token1 == SubSeq(str, first[1], first[2])
        token2 == SubSeq(str, second[1], second[2])
    IN (IF runs # {} /\ Len(token1) >= 3
        THEN {token1 \o DotNo, token1 \o DotCom} ELSE {})
       \cup
       (IF Cardinality(runs) >= 2 /\ Len(token1) + Len(token2) >= 4
        THEN {token1 \o token2 \o DotNo, token1 \o token2 \o DotCom} ELSE {})
       \cup
       (IF Cardinality(runs) >= 2
        THEN {token1 \o <<"-">> \o token2 \o DotNo,
              token1 \o <<"-">> \o token2 \o DotCom} ELSE {})

\* C11 (as claimed): _search_common_patterns tokenizes the name into its
\* maximal runs of ASCII letters, lower-cased, a run next to a digit,
\* underscore or non-ASCII letter included, and emits exactly token1.no/.com
\* if token1 has length >= 3, token1token2.no/.com if there are two tokens
\* and the concatenation has length >= 4, and token1-token2.no/.com
\* whenever there are two tokens.
C11_PatternsOfLetterRuns ==
    Called("patterns") =>
        LET str == Lower(NameOf(company_data)) IN
        out["patterns"] = PatternsOfRuns(str, LetterRuns(str, AsciiLower))

\* C11 (amended): the tokens are the maximal runs of ASCII letters that
\* stand as whole words, with no letter, digit or underscore (ASCII or
\* not) directly before or after; a run that touches one is no token.
\* The domains emitted from the first two tokens are as claimed.
C11_PatternsOfWholeWords ==
    Called("patterns") =>
        LET str == Lower(NameOf(company_data)) IN
        out["patterns"] = PatternsOfRuns(str, LetterRuns(str, WordChars))

B1Kraft == <<"b", "1", " ", "K", "r", "a", "f", "t">>
KraftNo == <<"k", "r", "a", "f", "t">> \o DotNo
C11_Witness ==
    /\ Called("patterns")
    /\ NameOf(company_data) = B1Kraft
    /\ out["patterns"] = {KraftNo, <<"k", "r", "a", "f", "t">> \o DotCom}

\* ------------------------------------------------- claims: probe order
\* C14: within one _verify_domain call no probe is issued unless name
\* resolution has succeeded, the http probe comes first, the https probe
\* is issued only after the http probe has failed and never after it
\* succeeded, and each probe is issued at most once.
C14_ProbeOrder ==
    /\ vpc = "resolve" => probes = <<>>
    /\ probes # <<>> =>
          /\ dns[vdomain] = "resolved"
          /\ probes[1].scheme = "http"
    /\ Len(probes) <= 2
    /\ \A i \in 1..Len(probes) :
          probes[i].scheme = "https" =>
              /\ i = 2
              /\ probes[1].scheme = "http" /\ ~probes[1].answered
    /\ \A i, j \in 1..Len(probes) :
          i # j => probes[i].scheme # probes[j].scheme

C14_Witness ==
    /\ vpc = "returned"
    /\ Len(probes) = 2
    /\ probes[1] = [scheme |-> "http", answered |-> FALSE]
    /\ probes[2] = [scheme |-> "https", answered |-> TRUE]

\* ------------------------------------------------ claims: the whole run
DerivedFields == {"estimated_revenue", "size_category", "industry_category"}

\* output has every field of input with the value it has there, and
\* beyond these only the three derived fields
AddsOnlyDerived(input, output) ==
    /\ DOMAIN output = DOMAIN input \cup DerivedFields
    /\ \A k \in DOMAIN input : output[k] = input[k]

RECURSIVE FirstPages(_, _)
FirstPages(pages, q) ==
    IF q = 0 THEN <<>> ELSE FirstPages(pages, q - 1) \o pages[q]

\* the record of the registry an entity of the pipeline stems from
RegistryRecord(c) == FirstPages(registry, Len(registry))[OrgOf(c)]

\* C12: enrich_company_data leaves its input record unchanged and returns
\* a new record that agrees with the input on every input field, name and
\* identifier included, and differs only by the added estimated_revenue,
\* size_category and industry_category; this holds for every entity
\* through filter, classify, sort and truncate.
C12_OnlyDerivedFieldsAdded ==
    /\ \A i \in 1..Len(all_companies) :
          all_companies[i] = RegistryRecord(all_companies[i])
    /\ \A i \in 1..Len(large_companies) :
          large_companies[i] = RegistryRecord(large_companies[i])
    /\ pc \in {"enriched", "sorted", "discover", "summary", "done"} =>
          /\ Len(enriched_companies) = Len(large_companies)
          /\ \A i \in 1..Len(large_companies) :
                AddsOnlyDerived(large_companies[i], enriched_companies[i])
    /\ \A i \in 1..Len(sorted_companies) :
          AddsOnlyDerived(RegistryRecord(sorted_companies[i]), sorted_companies[i])
    /\ \A i \in 1..Len(top_companies) :
          AddsOnlyDerived(RegistryRecord(top_companies[i]), top_companies[i])

C12_Witness ==
    /\ pc = "discover"
    /\ Len(top_companies) = 2
    /\ top_companies[1]["navn"] = ShortName
    /\ top_companies[1]["size_category"] = "small"
    /\ top_companies[2]["size_category"] = "medium"
    /\ DerivedFields \cap DOMAIN large_companies[1] = {}

\* C13: a network error of the registry provider on any page of the
\* initial fetch does not propagate: search_active_companies stops and
\* returns the entities accumulated from the earlier pages, and when the
\* fetch ends with no entity the run halts with an error message before
\* any filter, classify, sort or discovery step.
Active(records) ==
    SelectSeq(records, LAMBDA r : Get(r, "slettedato", None) = None)

C13_FetchErrorTolerated ==
    /\ pc = "crashed" => exc # "RequestException" /\ all_companies # <<>>
    /\ \A i \in 1..Len(log) :
          (log[i].msg = "Error searching companies" /\ pc # "fetch") =>
              all_companies = Active(FirstPages(registry, log[i].page))
    /\ pc \in {"filtered", "enriched", "sorted", "discover", "summary", "done"}
          => all_companies # <<>>
    /\ pc = "no_input" =>
          /\ all_companies = <<>>
          /\ log[Len(log)] = NoCompaniesError
          /\ large_companies = <<>> /\ enriched_companies = <<>>
          /\ sorted_companies = <<>> /\ top_companies = <<>>
          /\ results = <<>> /\ output_file = None
    /\ (pc = "fetched" /\ all_companies = <<>>) => ~ENABLED MainFilter

C13_Witness ==
    /\ pc = "filtered"
    /\ log = <<SearchError(1)>>
    /\ Len(all_companies) = 2

\* C15: whenever the initial fetch returns at least one entity the run
\* reaches its end, results saved and summary reported, without an
\* unhandled error, also when no entity survives the minimum-employee
\* filter so that the list of result records is empty.
C15_RunEndsWithoutError ==
    all_companies # <<>> => pc # "crashed"

====
